---- MODULE Spec2Model ----
(***************************************************************************)
(* A model of the distributed DQN worker:                                  *)
(*   src/rl_algorithms/common/distributed/abstract/worker.py  (Worker)     *)
(*   src/rl_algorithms/dqn/worker.py                          (DQNWorker)  *)
(*                                                                         *)
(* Epsilon, min_epsilon, max_epsilon, epsilon_decay and the value of       *)
(* np.random.random() are Python floats (64-bit binary floating point),    *)
(* held as the exact number in units of 2^-56, in two limbs of 28 bits,    *)
(* and rounded as the float operations round.  Parameter values, states,   *)
(* rewards and losses are integers; torch.FloatTensor is modelled by what  *)
(* the conversion to 32-bit floats does to an integer.                     *)
(***************************************************************************)
EXTENDS Integers, Sequences, FiniteSets, TLC

VARIABLES
    hp,            \* hyper_params (one ConfigDict, shared by the workers)
    rank,          \* rank[w]: self.rank
    proc,          \* proc[w]: the operating-system process that hosts worker w
    py_random,     \* py_random[p]: the state of the `random` module of process
                   \* p (the last seed given to it, draws since then)
    pc,            \* pc[w]: the worker's position in collect_data / its cycle
    epsilon,       \* epsilon[w]: self.epsilon
    dqn,           \* dqn[w]: the parameter objects of self.dqn (id, data), in
                   \* enumeration order
    env,           \* env[w]: self.env (seeded generator and current state)
    state,         \* state[w]: the local `state` of collect_data
    action,        \* action[w]: the local `action` of collect_data
    local_memory,  \* local_memory[w]: the dict of the five field lists
    nstep_queue,   \* nstep_queue[w]: the deque(maxlen=n_step)
    transitions,   \* transitions[w]: history of the transitions of this call
    priorities,    \* priorities[w]: the vector compute_priorities returned, while
                   \* it is the most recent operation (<<>> otherwise)
    last_call      \* last_call[w]: history of the most recent operation

vars == <<hp, rank, proc, py_random, pc, epsilon, dqn, env, state, action, local_memory,
          nstep_queue, transitions, priorities, last_call>>

(***************************************************************************)
(* Bounds of the model.                                                    *)
(***************************************************************************)
MaxNStep == 2
MaxBufferSize == 2
NumStates == 3
NumParams == 2

Workers == {1, 2}
Ranks == {0, 7}
Actions == {0, 1}

Min(a, b) == IF a < b THEN a ELSE b
Max(a, b) == IF a > b THEN a ELSE b
Abs(a) == IF a < 0 THEN -a ELSE a

(***************************************************************************)
(* Python floats.  A number x >= 0 is the pair <<hi, lo>> with             *)
(* x = (hi * 2^28 + lo) * 2^-56 and 0 <= lo < 2^28.                         *)
(***************************************************************************)
FloatBase == 2^28

FloatZero == <<0, 0>>
FloatQuarter == <<FloatBase \div 4, 0>>
FloatHalf == <<FloatBase \div 2, 0>>
FloatThreeQuarters == <<3 * (FloatBase \div 4), 0>>
FloatOne == <<FloatBase, 0>>

\* The float nearest to 0.4, 0x1.999999999999ap-2.
FloatPointFour == <<107374182, 107374184>>

\* The values of np.random.random() tried.
NpDraws == {FloatZero, FloatQuarter, FloatHalf, FloatThreeQuarters}

\* a < b, a <= b and max(a, b)
FloatLess(a, b) == a[1] < b[1] \/ (a[1] = b[1] /\ a[2] < b[2])
FloatLeq(a, b) == a = b \/ FloatLess(a, b)
FloatMax(a, b) == IF FloatLess(a, b) THEN b ELSE a

\* a + b and a - b (for a >= b) as exact numbers
ExactAdd(a, b) ==
    LET lo == a[2] + b[2]
    IN  IF lo >= FloatBase THEN <<a[1] + b[1] + 1, lo - FloatBase>>
        ELSE <<a[1] + b[1], lo>>

ExactSub(a, b) ==
    IF a[2] >= b[2] THEN <<a[1] - b[1], a[2] - b[2]>>
    ELSE <<a[1] - b[1] - 1, a[2] + FloatBase - b[2]>>

\* The distance, in units of 2^-56, between the floats around the exact number
\* v: a float has 53 significant bits.
Ulp(v) ==
    IF v[1] >= 4 * FloatBase THEN 64
    ELSE IF v[1] >= 2 * FloatBase THEN 32
    ELSE IF v[1] >= FloatBase THEN 16
    ELSE IF v[1] >= FloatBase \div 2 THEN 8
    ELSE IF v[1] >= FloatBase \div 4 THEN 4
    ELSE IF v[1] >= FloatBase \div 8 THEN 2
    ELSE 1

\* The float an operation returns for the exact result v: the nearest float,
\* the one with the even last bit when two are as near.
RoundToFloat(v) ==
    LET u == Ulp(v)
        r == v[2] % u
        down == <<v[1], v[2] - r>>
        up == ExactAdd(down, <<0, u>>)
    IN  IF r = 0 THEN v
        ELSE IF 2 * r > u THEN up
        ELSE IF 2 * r < u THEN down
        ELSE IF (down[2] \div u) % 2 = 0 THEN down ELSE up

\* a - b for floats a >= b
FloatSub(a, b) == RoundToFloat(ExactSub(a, b))

\* a * b for floats, a being 1.0 or 0.5 (the values of max_epsilon -
\* min_epsilon tried): the product is b or its half, which is a float.
FloatMul(a, b) ==
    IF a = FloatOne THEN b
    ELSE <<b[1] \div 2, (b[1] % 2) * (FloatBase \div 2) + b[2] \div 2>>

(***************************************************************************)
(* Conversions.                                                            *)
(***************************************************************************)
\* torch.FloatTensor(x): x as a 32-bit float.  Integers up to 2^24 in
\* magnitude are kept; from 2^24 to 2^25 the representable values are the
\* even integers, and an odd one is rounded to the nearest even mantissa.
TwoPow24 == 2^24

FloatTensor(v) ==
    LET m == Abs(v)
        q == m \div 2
        r == IF m <= TwoPow24 \/ m % 2 = 0 THEN m
             ELSE IF q % 2 = 0 THEN 2 * q ELSE 2 * (q + 1)
    IN  IF v < 0 THEN -r ELSE r

\* int(done)
IntOf(b) == IF b THEN 1 ELSE 0

\* random.seed(rank); random.randint(0, 999)  (CPython's Mersenne Twister)
PyRandInt(r) ==
    CASE r = 0 -> 864
      [] r = 1 -> 137
      [] r = 2 -> 978
      [] r = 3 -> 243
      [] r = 4 -> 241
      [] r = 5 -> 637
      [] r = 6 -> 812
      [] r = 7 -> 331
      [] r = 8 -> 232
      [] r = 9 -> 474

(***************************************************************************)
(* External collaborators (spec section 6): the environment, the policy    *)
(* network and the loss function.  None of them is part of the worker.     *)
(***************************************************************************)
\* env.seed(env_seed): the environment's generator, fixed by the seed.
EnvSeed(seed) == [rng |-> seed % NumStates, s |-> 0]

\* env.reset(): a start state drawn from the environment's own generator.
EnvReset(e) == [rng |-> (e.rng + 1) % NumStates, s |-> e.rng % (NumStates - 1)]

\* env.step(action) -> (next_state, reward, done): deterministic dynamics;
\* the last state is terminal, so every episode ends.
EnvStep(e, a) ==
    LET ns == Min(e.s + 1 + a, NumStates - 1)
    IN  [env        |-> [rng |-> e.rng, s |-> ns],
         next_state |-> ns,
         reward     |-> e.s + 2 * a - 1,
         done       |-> (ns = NumStates - 1)]

RECURSIVE SumData(_)
SumData(params) ==
    IF params = <<>> THEN 0 ELSE Head(params).data + SumData(Tail(params))

\* self.dqn(state): one action value per action, a function of the content of
\* the parameters.
QValue(params, s, a) == ((SumData(params) % 2) + s + 2 * a) % 3

\* self.dqn(state).argmax(): the first action of greatest value.
Argmax(params, s) ==
    CHOOSE a \in Actions :
        /\ \A b \in Actions : QValue(params, s, b) <= QValue(params, s, a)
        /\ \A b \in Actions : QValue(params, s, b) = QValue(params, s, a) => a <= b

\* loss_fn(dqn, dqn, (s, a, r, ns, d), gamma, head_cfg): element-wise loss,
\* a temporal-difference error magnitude, never negative.
LossFn(params, s, a, r, ns, d, gamma) ==
    Abs(r + gamma * (1 - d) * QValue(params, ns, Argmax(params, ns))
        - QValue(params, s, a))

(***************************************************************************)
(* Hyper-parameters and construction.                                      *)
(***************************************************************************)
\* The configurations tried: min_epsilon <= max_epsilon, epsilon_decay >= 0,
\* per_eps > 0.  With epsilon_decay = 0 epsilon never moves, whatever
\* min_epsilon is, so one min_epsilon stands for all; both values of gamma
\* are tried where the window folds rewards with it.
HyperParams ==
    { h \in [n_step                : 1..MaxNStep,
             max_epsilon           : {FloatOne},
             min_epsilon           : {FloatZero, FloatHalf},
             epsilon_decay         : {FloatZero, FloatPointFour},
             local_buffer_max_size : 0..MaxBufferSize,
             gamma                 : {0, 1},
             per_eps               : {1}] :
        /\ FloatLeq(h.min_epsilon, h.max_epsilon)
        /\ h.epsilon_decay = FloatZero => h.min_epsilon = FloatZero
        /\ h.n_step = 1 => h.gamma = 1 }

\* self.use_n_step = self.hyper_params.n_step > 1
UseNStep == hp.n_step > 1

EmptyMemory ==
    [states |-> <<>>, actions |-> <<>>, rewards |-> <<>>,
     next_states |-> <<>>, dones |-> <<>>]

Call(o) == [op |-> o, again |-> FALSE]

\* state_dict given to the constructor
StateDicts == [1..NumParams -> {1}]

\* self.dqn = Brain(...); self.dqn.load_state_dict(state_dict): one parameter
\* object per entry, object i holding entry i.
LoadStateDict(sd) == [i \in 1..NumParams |-> [id |-> i, data |-> sd[i]]]

\* The `random` module after random.seed(r) and one random.randint.
Seeded(r) == [seed |-> r, draws |-> 1]

\* The `random` module of a process that has not seeded it (-1: the seed the
\* interpreter took from the operating system).
Unseeded == [seed |-> -1, draws |-> 0]

\* The workers after a construction that has run to its end, each worker in a
\* process of its own, as section 4 of the spec has it: position Idle, epsilon
\* at max_epsilon, the policy loaded from state_dict, the environment seeded
\* from the rank.  The constructor of src/ does not get there (ConstructWorker
\* below): DQNWorker reads self.hyper_params everywhere and assigns it
\* nowhere, so the class that supplies it, with run, _init_communication and
\* preprocess_nstep, is outside src/.
Construct(ranks) ==
    /\ hp \in HyperParams
    /\ rank \in ranks
    /\ proc = [w \in Workers |-> w]
    /\ py_random = [p \in Workers |-> Seeded(rank[p])]
    /\ pc = [w \in Workers |-> "idle"]
    /\ epsilon = [w \in Workers |-> hp.max_epsilon]
    /\ \E sd \in StateDicts : dqn = [w \in Workers |-> LoadStateDict(sd)]
    /\ env = [w \in Workers |-> EnvSeed(PyRandInt(rank[w]))]
    /\ state = [w \in Workers |-> 0]
    /\ action = [w \in Workers |-> 0]
    /\ local_memory = [w \in Workers |-> EmptyMemory]
    /\ nstep_queue = [w \in Workers |-> <<>>]
    /\ transitions = [w \in Workers |-> <<>>]
    /\ priorities = [w \in Workers |-> <<>>]
    /\ last_call = [w \in Workers |-> Call("init")]

\* Both workers are built from the same configuration and the same rank.
Init == Construct({r \in [Workers -> Ranks] : r[1] = r[2]})

\* One process that is going to build both workers, with ranks of their own.
InitShared ==
    /\ hp \in HyperParams
    /\ rank \in {r \in [Workers -> Ranks] : r[1] # r[2]}
    /\ proc = [w \in Workers |-> 1]
    /\ py_random = [p \in Workers |-> Unseeded]
    /\ pc = [w \in Workers |-> "new"]
    /\ epsilon = [w \in Workers |-> FloatZero]
    /\ dqn = [w \in Workers |-> <<>>]
    /\ env = [w \in Workers |-> EnvSeed(0)]
    /\ state = [w \in Workers |-> 0]
    /\ action = [w \in Workers |-> 0]
    /\ local_memory = [w \in Workers |-> EmptyMemory]
    /\ nstep_queue = [w \in Workers |-> <<>>]
    /\ transitions = [w \in Workers |-> <<>>]
    /\ priorities = [w \in Workers |-> <<>>]
    /\ last_call = [w \in Workers |-> Call("new")]

\* DQNWorker(...) with the class as it is in src/: _init_communication and run
\* are abstract, so the call raises TypeError before __init__ runs and
\* nothing is seeded or assigned.
InstantiateAbstract(w) ==
    /\ pc[w] = "new"
    /\ pc' = [pc EXCEPT ![w] = "error"]
    /\ last_call' = [last_call EXCEPT ![w] = Call("type_error")]
    /\ UNCHANGED <<hp, rank, proc, py_random, epsilon, dqn, env, state, action,
                   local_memory, nstep_queue, transitions, priorities>>

\* DQNWorker.__init__ for worker w, in a subclass that adds the two abstract
\* methods and nothing else.  Worker.__init__ stores hyper_params as
\* self.comm_cfg and runs _init_env: random.seed(self.rank) and
\* random.randint(0, 999) act on the `random` module of the process, and the
\* environment is seeded.  Then line 28 reads self.hyper_params, which nothing
\* has assigned, and raises AttributeError: epsilon and the policy are never
\* assigned.
ConstructWorker(w) ==
    /\ pc[w] = "new"
    /\ py_random' = [py_random EXCEPT ![proc[w]] = Seeded(rank[w])]
    /\ env' = [env EXCEPT ![w] = EnvSeed(PyRandInt(rank[w]))]
    /\ pc' = [pc EXCEPT ![w] = "error"]
    /\ last_call' = [last_call EXCEPT ![w] = Call("init_raised")]
    /\ UNCHANGED <<hp, rank, proc, epsilon, dqn, state, action, local_memory,
                   nstep_queue, transitions, priorities>>

\* The construction of worker w run to its end, as in Construct: the same
\* seeding, then epsilon at max_epsilon and the policy loaded.
ConstructCompleted(w) ==
    /\ pc[w] = "new"
    /\ py_random' = [py_random EXCEPT ![proc[w]] = Seeded(rank[w])]
    /\ env' = [env EXCEPT ![w] = EnvSeed(PyRandInt(rank[w]))]
    /\ epsilon' = [epsilon EXCEPT ![w] = hp.max_epsilon]
    /\ \E sd \in StateDicts : dqn' = [dqn EXCEPT ![w] = LoadStateDict(sd)]
    /\ pc' = [pc EXCEPT ![w] = "idle"]
    /\ last_call' = [last_call EXCEPT ![w] = Call("init")]
    /\ UNCHANGED <<hp, rank, proc, state, action, local_memory, nstep_queue,
                   transitions, priorities>>

(***************************************************************************)
(* DQNWorker.select_action                                                 *)
(***************************************************************************)
\* (self.max_epsilon - self.min_epsilon) * self.hyper_params.epsilon_decay
EpsilonStep ==
    FloatMul(FloatSub(hp.max_epsilon, hp.min_epsilon), hp.epsilon_decay)

\* Mutant of DecayEpsilon: the decrement without the floor at min_epsilon
\* (a result below 0 is held as 0).
DecayEpsilonNoFloor(e) ==
    IF FloatLess(e, EpsilonStep) THEN FloatZero ELSE FloatSub(e, EpsilonStep)

\* self.epsilon = max(self.epsilon - (max_epsilon - min_epsilon) * epsilon_decay,
\*                    self.min_epsilon)
\* A difference below 0 is below min_epsilon, so max returns min_epsilon.
DecayEpsilon(e) ==
    IF FloatLess(e, EpsilonStep) THEN hp.min_epsilon
    ELSE FloatMax(FloatSub(e, EpsilonStep), hp.min_epsilon)

\* The action chosen for draw u of np.random.random() and draw sampled of
\* env.action_space.sample().
SelectedAction(w, u, sampled) ==
    IF FloatLess(u, epsilon[w]) THEN sampled
    ELSE Argmax(dqn[w], FloatTensor(state[w]))

\* Mutant of SelectAction: epsilon is lowered in the exploring branch only.
SelectActionDecayOnExplore(w) ==
    /\ pc[w] = "select"
    /\ \E u \in NpDraws, sampled \in Actions :
          /\ action' = [action EXCEPT ![w] = SelectedAction(w, u, sampled)]
          /\ epsilon' = [epsilon EXCEPT ![w] =
                 IF FloatLess(u, epsilon[w]) THEN DecayEpsilon(epsilon[w])
                 ELSE epsilon[w]]
    /\ pc' = [pc EXCEPT ![w] = "step"]
    /\ last_call' = [last_call EXCEPT ![w] = Call("select_action")]
    /\ UNCHANGED <<hp, rank, proc, py_random, dqn, env, state, local_memory, nstep_queue,
                   transitions, priorities>>

\* One call of select_action inside the episode loop.  Neither generator is
\* seeded by the worker, so each draw may be any value of its range.
SelectAction(w) ==
    /\ pc[w] = "select"
    /\ \E u \in NpDraws, sampled \in Actions :
          action' = [action EXCEPT ![w] = SelectedAction(w, u, sampled)]
    /\ epsilon' = [epsilon EXCEPT ![w] = DecayEpsilon(epsilon[w])]
    /\ pc' = [pc EXCEPT ![w] = "step"]
    /\ last_call' = [last_call EXCEPT ![w] = Call("select_action")]
    /\ UNCHANGED <<hp, rank, proc, py_random, dqn, env, state, local_memory, nstep_queue,
                   transitions, priorities>>

(***************************************************************************)
(* DQNWorker.collect_data                                                  *)
(***************************************************************************)
\* Mutant of CollectStart: the buffer and the window are attributes set up
\* once, so a call goes on from what the call before left in them.
CollectStartKeeping(w) ==
    /\ pc[w] \in {"idle", "returned"}
    /\ transitions' = [transitions EXCEPT ![w] = <<>>]
    /\ state' = [state EXCEPT ![w] = 0]
    /\ action' = [action EXCEPT ![w] = 0]
    /\ priorities' = [priorities EXCEPT ![w] = <<>>]
    /\ pc' = [pc EXCEPT ![w] = "loop"]
    /\ last_call' = [last_call EXCEPT ![w] = Call("collect_data")]
    /\ UNCHANGED <<hp, rank, proc, py_random, epsilon, dqn, env, local_memory,
                   nstep_queue>>

\* local_memory = dict(states=[], ...); nstep_queue = deque(maxlen=n_step).
\* The locals of the call and the result of the last cycle start afresh.
CollectStart(w) ==
    /\ pc[w] \in {"idle", "returned"}
    /\ local_memory' = [local_memory EXCEPT ![w] = EmptyMemory]
    /\ nstep_queue' = [nstep_queue EXCEPT ![w] = <<>>]
    /\ transitions' = [transitions EXCEPT ![w] = <<>>]
    /\ state' = [state EXCEPT ![w] = 0]
    /\ action' = [action EXCEPT ![w] = 0]
    /\ priorities' = [priorities EXCEPT ![w] = <<>>]
    /\ pc' = [pc EXCEPT ![w] = "loop"]
    /\ last_call' = [last_call EXCEPT ![w] = Call("collect_data")]
    /\ UNCHANGED <<hp, rank, proc, py_random, epsilon, dqn, env>>

\* Mutant of LoopCond: the threshold test one entry early.
LoopCondEarly(w) == Len(local_memory[w].states) + 1 < hp.local_buffer_max_size

\* while len(local_memory["states"]) < self.hyper_params.local_buffer_max_size
LoopCond(w) == Len(local_memory[w].states) < hp.local_buffer_max_size

\* Mutant of EpisodeReset: done starts as True, so the episode loop is skipped
\* and the outer loop tests the threshold again.
EpisodeResetDone(w) ==
    /\ pc[w] = "loop"
    /\ LoopCond(w)
    /\ env' = [env EXCEPT ![w] = EnvReset(env[w])]
    /\ state' = [state EXCEPT ![w] = EnvReset(env[w]).s]
    /\ pc' = [pc EXCEPT ![w] = "loop"]
    /\ last_call' = [last_call EXCEPT ![w] = Call("reset")]
    /\ UNCHANGED <<hp, rank, proc, py_random, epsilon, dqn, action, local_memory, nstep_queue,
                   transitions, priorities>>

\* Mutant of EpisodeReset: the n-step window is emptied when an episode begins.
EpisodeResetClearing(w) ==
    /\ pc[w] = "loop"
    /\ LoopCond(w)
    /\ env' = [env EXCEPT ![w] = EnvReset(env[w])]
    /\ state' = [state EXCEPT ![w] = EnvReset(env[w]).s]
    /\ pc' = [pc EXCEPT ![w] = "select"]
    /\ last_call' = [last_call EXCEPT ![w] = Call("reset")]
    /\ nstep_queue' = [nstep_queue EXCEPT ![w] = <<>>]
    /\ UNCHANGED <<hp, rank, proc, py_random, epsilon, dqn, action, local_memory,
                   transitions, priorities>>

\* state = self.env.reset(); done = False
EpisodeReset(w) ==
    /\ pc[w] = "loop"
    /\ LoopCond(w)
    /\ env' = [env EXCEPT ![w] = EnvReset(env[w])]
    /\ state' = [state EXCEPT ![w] = EnvReset(env[w]).s]
    /\ pc' = [pc EXCEPT ![w] = "select"]
    /\ last_call' = [last_call EXCEPT ![w] = Call("reset")]
    /\ UNCHANGED <<hp, rank, proc, py_random, epsilon, dqn, action, local_memory, nstep_queue,
                   transitions, priorities>>

\* Mutant of AfterEnvError: the loop swallows the exception and goes on to the
\* next episode.
AfterEnvErrorSkip == "loop"

\* Where collect_data is after self.env.reset() or self.env.step(action) has
\* raised: neither collect_data nor step has a try block, so the exception
\* leaves collect_data and the call is over without a return value.
AfterEnvError == "error"

\* self.env.reset() raises
ResetRaises(w) ==
    /\ pc[w] = "loop"
    /\ LoopCond(w)
    /\ pc' = [pc EXCEPT ![w] = AfterEnvError]
    /\ last_call' = [last_call EXCEPT ![w] = Call("reset_raised")]
    /\ UNCHANGED <<hp, rank, proc, py_random, epsilon, dqn, env, state, action, local_memory,
                   nstep_queue, transitions, priorities>>

\* self.env.step(action) raises inside DQNWorker.step
StepRaises(w) ==
    /\ pc[w] = "step"
    /\ pc' = [pc EXCEPT ![w] = AfterEnvError]
    /\ last_call' = [last_call EXCEPT ![w] = Call("step_raised")]
    /\ UNCHANGED <<hp, rank, proc, py_random, epsilon, dqn, env, state, action, local_memory,
                   nstep_queue, transitions, priorities>>

\* Mutant of AppendEntries: the entries go to the front of the lists.
AppendEntriesFront(m, t) ==
    [states      |-> <<t[1]>> \o m.states,
     actions     |-> <<t[2]>> \o m.actions,
     rewards     |-> <<t[3]>> \o m.rewards,
     next_states |-> <<t[4]>> \o m.next_states,
     dones       |-> <<t[5]>> \o m.dones]

\* local_memory[key] = np.array(local_memory[key]); return local_memory
Return(w) ==
    /\ pc[w] = "loop"
    /\ ~LoopCond(w)
    /\ pc' = [pc EXCEPT ![w] = "returned"]
    /\ last_call' = [last_call EXCEPT ![w] = Call("return")]
    /\ UNCHANGED <<hp, rank, proc, py_random, epsilon, dqn, env, state, action, local_memory,
                   nstep_queue, transitions, priorities>>

\* transition = (state, action, reward, next_state, int(done))
Transition(s, a, r) == <<s, a, r.reward, r.next_state, IntOf(r.done)>>

\* Mutant of AppendEntries: the zip runs over four of the five keys.
AppendEntriesShort(m, t) ==
    [states      |-> Append(m.states, t[1]),
     actions     |-> Append(m.actions, t[2]),
     rewards     |-> Append(m.rewards, t[3]),
     next_states |-> Append(m.next_states, t[4]),
     dones       |-> m.dones]

\* for entry, keys in zip(entries, local_memory_keys): local_memory[keys].append(entry)
AppendEntries(m, t) ==
    [states      |-> Append(m.states, t[1]),
     actions     |-> Append(m.actions, t[2]),
     rewards     |-> Append(m.rewards, t[3]),
     next_states |-> Append(m.next_states, t[4]),
     dones       |-> Append(m.dones, t[5])]

\* Mutant of DequeAppend: a full window is emptied before the append, so the
\* windows follow one another without overlap.
DequeAppendTumbling(q, t, maxlen) ==
    IF Len(q) >= maxlen THEN <<t>> ELSE Append(q, t)

\* deque(maxlen=n).append(t): the oldest member leaves a full deque
DequeAppend(q, t, maxlen) ==
    IF Len(q) >= maxlen THEN Append(Tail(q), t) ELSE Append(q, t)

\* self.preprocess_nstep(nstep_queue) is called by collect_data and defined in
\* neither class of src/; it is modelled from spec section 4.3: the reward is
\* the discounted sum over the window, next_state comes from the last member,
\* done is the OR of the members' done flags, state and action come from the
\* first member.
RECURSIVE DiscountedSum(_, _)
DiscountedSum(q, gamma) ==
    IF q = <<>> THEN 0 ELSE Head(q)[3] + gamma * DiscountedSum(Tail(q), gamma)

PreprocessNstep(q, gamma) ==
    <<q[1][1], q[1][2], DiscountedSum(q, gamma), q[Len(q)][4],
      IntOf(\E i \in 1..Len(q) : q[i][5] = 1)>>

\* What the step records: with n_step > 1 the transition joins the window and
\* a window of n_step members gives one folded entry; with n_step <= 1 the
\* transition itself is the entry.  <<>> stands for no entry.
Recorded(q, t) ==
    IF UseNStep
    THEN IF hp.n_step = Len(q) THEN <<PreprocessNstep(q, hp.gamma)>> ELSE <<>>
    ELSE <<t>>

\* Mutant of Step: the threshold is also tested after every transition, so the
\* episode loop is left as soon as the buffer is full.
StepTestingThreshold(w) ==
    /\ pc[w] = "step"
    /\ LET r == EnvStep(env[w], action[w])
           t == Transition(state[w], action[w], r)
           q == IF UseNStep THEN DequeAppend(nstep_queue[w], t, hp.n_step)
                ELSE nstep_queue[w]
           entries == Recorded(q, t)
           m == IF entries = <<>> THEN local_memory[w]
                ELSE AppendEntries(local_memory[w], entries[1])
       IN  /\ env' = [env EXCEPT ![w] = r.env]
           /\ transitions' = [transitions EXCEPT ![w] = Append(@, t)]
           /\ nstep_queue' = [nstep_queue EXCEPT ![w] = q]
           /\ local_memory' = [local_memory EXCEPT ![w] = m]
           /\ state' = [state EXCEPT ![w] = r.next_state]
           /\ pc' = [pc EXCEPT ![w] =
                  IF r.done \/ Len(m.states) >= hp.local_buffer_max_size
                  THEN "loop" ELSE "select"]
    /\ last_call' = [last_call EXCEPT ![w] = Call("step")]
    /\ UNCHANGED <<hp, rank, proc, py_random, epsilon, dqn, action, priorities>>

\* The body of `while not done` after select_action: step the environment,
\* build the transition and record it.
Step(w) ==
    /\ pc[w] = "step"
    /\ LET r == EnvStep(env[w], action[w])
           t == Transition(state[w], action[w], r)
           q == IF UseNStep THEN DequeAppend(nstep_queue[w], t, hp.n_step)
                ELSE nstep_queue[w]
           entries == Recorded(q, t)
       IN  /\ env' = [env EXCEPT ![w] = r.env]
           /\ transitions' = [transitions EXCEPT ![w] = Append(@, t)]
           /\ nstep_queue' = [nstep_queue EXCEPT ![w] = q]
           /\ local_memory' = [local_memory EXCEPT ![w] =
                  IF entries = <<>> THEN @ ELSE AppendEntries(@, entries[1])]
           /\ state' = [state EXCEPT ![w] = r.next_state]
           /\ pc' = [pc EXCEPT ![w] = IF r.done THEN "loop" ELSE "select"]
    /\ last_call' = [last_call EXCEPT ![w] = Call("step")]
    /\ UNCHANGED <<hp, rank, proc, py_random, epsilon, dqn, action, priorities>>

(***************************************************************************)
(* DQNWorker.compute_priorities                                            *)
(***************************************************************************)
\* Mutant of Priority: the loss alone, per_eps left out.
PriorityNoEps(params, m, i) ==
    LossFn(params, FloatTensor(m.states[i]), m.actions[i],
           FloatTensor(m.rewards[i]), FloatTensor(m.next_states[i]),
           FloatTensor(m.dones[i]), hp.gamma)

\* new_priorities = loss_for_prior + self.hyper_params.per_eps
Priority(params, m, i) ==
    LossFn(params, FloatTensor(m.states[i]), m.actions[i],
           FloatTensor(m.rewards[i]), FloatTensor(m.next_states[i]),
           FloatTensor(m.dones[i]), hp.gamma) + hp.per_eps

NewPriorities(params, m) ==
    [i \in 1..Len(m.states) |-> Priority(params, m, i)]

\* Mutant of ComputePriorities: the call consumes the buffer it is given.
ComputePrioritiesDraining(w) ==
    /\ pc[w] = "returned"
    /\ priorities' = [priorities EXCEPT ![w] = NewPriorities(dqn[w], local_memory[w])]
    /\ local_memory' = [local_memory EXCEPT ![w] = EmptyMemory]
    /\ last_call' = [last_call EXCEPT ![w] =
          [op |-> "compute_priorities",
           again |-> (last_call[w].op = "compute_priorities")]]
    /\ UNCHANGED <<hp, rank, proc, py_random, pc, epsilon, dqn, env, state, action,
                   nstep_queue, transitions>>

\* compute_priorities(memory) on the buffer collect_data returned
ComputePriorities(w) ==
    /\ pc[w] = "returned"
    /\ priorities' = [priorities EXCEPT ![w] = NewPriorities(dqn[w], local_memory[w])]
    /\ last_call' = [last_call EXCEPT ![w] =
          [op |-> "compute_priorities",
           again |-> (last_call[w].op = "compute_priorities")]]
    /\ UNCHANGED <<hp, rank, proc, py_random, pc, epsilon, dqn, env, state, action, local_memory,
                   nstep_queue, transitions>>

(***************************************************************************)
(* Worker._synchronize / DQNWorker.synchronize                             *)
(***************************************************************************)
\* Mutant of SynchronizedParams: `param = new_param` in place of
\* param.data.copy_(new_param), which rebinds the loop variable and leaves
\* the network as it was.
SynchronizedParamsRebound(params, new_params) == params

\* Mutant of SynchronizedParams: a parameter is overwritten only by a larger
\* value, as if the larger content were the newer one.
SynchronizedParamsNewerOnly(params, new_params) ==
    [i \in 1..Len(params) |->
        IF i <= Len(new_params)
        THEN [params[i] EXCEPT
                 !.data = Max(params[i].data, FloatTensor(new_params[i]))]
        ELSE params[i]]

\* for param, new_param in zip(network.parameters(), new_params):
\*     param.data.copy_(torch.FloatTensor(new_param))
\* zip stops at the shorter of the two sequences; copy_ writes into the
\* parameter object, which stays the same object.
SynchronizedParams(params, new_params) ==
    [i \in 1..Len(params) |->
        IF i <= Len(new_params)
        THEN [params[i] EXCEPT !.data = FloatTensor(new_params[i])]
        ELSE params[i]]

\* Values of new_params: one that is a 32-bit float and one that is not.
ParamVals == {1, TwoPow24 + 1}

RECURSIVE SeqsOfLen(_, _)
SeqsOfLen(S, n) ==
    IF n = 0 THEN {<<>>}
    ELSE {Append(q, x) : q \in SeqsOfLen(S, n - 1), x \in S}

\* new_params with one element per parameter of the policy
FullParamSets == SeqsOfLen(ParamVals, NumParams)

\* new_params as a caller may pass it: full, one element short, one too many
NewParamSets ==
    FullParamSets
        \cup SeqsOfLen({TwoPow24 + 1}, NumParams - 1)
        \cup SeqsOfLen({1}, NumParams + 1)

\* Mutant of Synchronize: the call also restarts the exploration schedule and
\* drops the collected data.
SynchronizeRestarting(w, new_params) ==
    /\ pc[w] \in {"idle", "returned"}
    /\ dqn' = [dqn EXCEPT ![w] = SynchronizedParams(dqn[w], new_params)]
    /\ epsilon' = [epsilon EXCEPT ![w] = hp.max_epsilon]
    /\ local_memory' = [local_memory EXCEPT ![w] = EmptyMemory]
    /\ priorities' = [priorities EXCEPT ![w] = <<>>]
    /\ last_call' = [last_call EXCEPT ![w] =
           [op |-> "synchronize", again |-> (last_call[w].op = "synchronize")]]
    /\ UNCHANGED <<hp, rank, proc, py_random, pc, env, state, action, nstep_queue, transitions>>

\* synchronize(new_params), called between two collect_data calls
Synchronize(w, new_params) ==
    /\ pc[w] \in {"idle", "returned"}
    /\ dqn' = [dqn EXCEPT ![w] = SynchronizedParams(dqn[w], new_params)]
    /\ priorities' = [priorities EXCEPT ![w] = <<>>]
    /\ last_call' = [last_call EXCEPT ![w] =
           [op |-> "synchronize", again |-> (last_call[w].op = "synchronize")]]
    /\ UNCHANGED <<hp, rank, proc, py_random, pc, epsilon, env, state, action, local_memory,
                   nstep_queue, transitions>>

(***************************************************************************)
(* Specifications.                                                         *)
(***************************************************************************)
WorkerNext(w) ==
    \/ CollectStart(w)
    \/ EpisodeReset(w)
    \/ SelectAction(w)
    \/ Step(w)
    \/ Return(w)
    \/ ResetRaises(w)
    \/ StepRaises(w)
    \/ ComputePriorities(w)
    \/ \E new_params \in NewParamSets : Synchronize(w, new_params)

\* One worker process.
Next == WorkerNext(1)

Spec == Init /\ [][Next]_vars

\* Two runs of the worker side by side, each collecting once.
CollectNext(w) ==
    \/ CollectStart(w) /\ pc[w] = "idle"
    \/ EpisodeReset(w)
    \/ SelectAction(w)
    \/ Step(w)
    \/ Return(w)

NextPair == \E w \in Workers : CollectNext(w)

SpecPair == Init /\ [][NextPair]_vars

\* The first collect_data call of a worker after its construction, in an
\* environment that does not fail.
NextFirst == CollectNext(1)

SpecFirst == Init /\ [][NextFirst]_vars

\* The same call run to its end: the worker is a sequential program, so a step
\* that can be taken is taken.
SpecFirstFair == SpecFirst /\ WF_vars(NextFirst)

\* Two workers built and run by one process, each collecting once.
NextShared ==
    \E w \in Workers :
        \/ InstantiateAbstract(w)
        \/ ConstructWorker(w)
        \/ ConstructCompleted(w)
        \/ CollectNext(w)

SpecShared == InitShared /\ [][NextShared]_vars

(***************************************************************************)
(* Properties.                                                             *)
(***************************************************************************)
FieldLens(m) ==
    {Len(m.states), Len(m.actions), Len(m.rewards), Len(m.next_states), Len(m.dones)}

Entry(m, i) == <<m.states[i], m.actions[i], m.rewards[i], m.next_states[i], m.dones[i]>>

\* C1: lock-step invariant.  At every point of collect_data and after it, for
\* n_step = 1 and n_step > 1, the five field sequences of the local buffer have
\* one length, and index i of every field comes from one recorded transition
\* (n_step = 1) or from one fold of the window (n_step > 1): state and action
\* of one transition, next_state of a transition not before it.
C1_LockStep ==
    \A w \in Workers :
        LET m == local_memory[w]
            tr == transitions[w]
        IN  /\ Cardinality(FieldLens(m)) = 1
            /\ \A i \in 1..Len(m.states) :
                  IF UseNStep
                  THEN \E j \in 1..Len(tr) : \E k \in j..Len(tr) :
                          /\ m.states[i] = tr[j][1]
                          /\ m.actions[i] = tr[j][2]
                          /\ m.next_states[i] = tr[k][4]
                  ELSE \E j \in 1..Len(tr) : Entry(m, i) = tr[j]

\* C1 witness: a buffer of two entries or more in the middle of an episode.
C1_Witness ==
    \E w \in Workers : pc[w] = "select" /\ Len(local_memory[w].dones) >= 2

\* C2 as claimed: the buffer collect_data returns has exactly
\* local_buffer_max_size entries in every field.
C2_ExactThreshold ==
    \A w \in Workers :
        pc[w] = "returned" => FieldLens(local_memory[w]) = {hp.local_buffer_max_size}

\* C2 as amended: the buffer collect_data returns has at least
\* local_buffer_max_size entries in every field, all fields of one length; the
\* threshold is tested between episodes only, so the last episode may run the
\* buffer past it.
C2_AtLeastThreshold ==
    \A w \in Workers :
        pc[w] = "returned" =>
            /\ Cardinality(FieldLens(local_memory[w])) = 1
            /\ Len(local_memory[w].states) >= hp.local_buffer_max_size

\* C2 witness: a returned buffer longer than the threshold.
C2_Witness ==
    \E w \in Workers :
        /\ pc[w] = "returned"
        /\ hp.local_buffer_max_size > 0
        /\ Len(local_memory[w].states) > hp.local_buffer_max_size

\* C3: epsilon monotonicity.  No step of any worker operation raises epsilon,
\* and epsilon never falls below min_epsilon; a select_action call leaves
\* epsilon <= its value before the call and >= min_epsilon.
C3_EpsilonMonotone ==
    [][\A w \in Workers :
          /\ FloatLeq(epsilon'[w], epsilon[w])
          /\ FloatLeq(hp.min_epsilon, epsilon'[w])
          /\ last_call'[w].op # "select_action" => epsilon'[w] = epsilon[w]]_vars

\* C3 witness: select_action has brought epsilon from max_epsilon down to a
\* positive floor.
C3_Witness ==
    \E w \in Workers :
        /\ last_call[w].op = "select_action"
        /\ FloatLess(FloatZero, hp.min_epsilon)
        /\ epsilon[w] = hp.min_epsilon
        /\ FloatLess(epsilon[w], hp.max_epsilon)

\* The fold of a window as section 8 of the spec states it.
RECURSIVE Pow(_, _)
Pow(b, n) == IF n = 0 THEN 1 ELSE b * Pow(b, n - 1)

RECURSIVE SumTo(_, _)
SumTo(f, n) == IF n = 0 THEN 0 ELSE f[n] + SumTo(f, n - 1)

FoldOf(q, gamma) ==
    LET n == Len(q)
    IN  <<q[1][1], q[1][2],
          SumTo([i \in 1..n |-> Pow(gamma, i - 1) * q[i][3]], n),
          q[n][4],
          IF \E i \in 1..n : q[i][5] = 1 THEN 1 ELSE 0>>

\* C5: priority positivity.  compute_priorities gives one priority per entry
\* of the buffer, in index order, priority[i] = element_wise_loss[i] + per_eps,
\* and with per_eps > 0 every priority is > 0, also where the loss is 0.
C5_PriorityPositive ==
    \A w \in Workers :
        last_call[w].op = "compute_priorities" =>
            LET m == local_memory[w]
            IN  /\ DOMAIN priorities[w] = 1..Len(m.states)
                /\ \A i \in 1..Len(m.states) :
                      /\ priorities[w][i] =
                            LossFn(dqn[w], m.states[i], m.actions[i], m.rewards[i],
                                   m.next_states[i], m.dones[i], hp.gamma) + hp.per_eps
                      /\ hp.per_eps > 0 => priorities[w][i] > 0

\* C5 witness: a priority computed for an entry whose loss is 0.
C5_Witness ==
    \E w \in Workers :
        /\ last_call[w].op = "compute_priorities"
        /\ hp.per_eps > 0
        /\ \E i \in 1..Len(priorities[w]) : priorities[w][i] = hp.per_eps

\* C6 as claimed: after synchronize(new_params) the i-th policy parameter holds
\* exactly new_params[i], for every i.
C6_SyncExact ==
    [][\A w \in Workers : \A np \in FullParamSets :
          (last_call'[w].op = "synchronize" /\ Synchronize(w, np)) =>
              \A i \in 1..NumParams : dqn'[w][i].data = np[i]]_vars

\* C6 as amended: after synchronize(new_params), new_params having one element
\* per policy parameter, the i-th policy parameter (in the policy's enumeration
\* order) holds new_params[i] converted to a 32-bit float, which is new_params[i]
\* itself when that value is a 32-bit float; the parameter objects are the
\* objects of before the call.
C6_SyncConverted ==
    [][\A w \in Workers : \A np \in FullParamSets :
          (last_call'[w].op = "synchronize" /\ Synchronize(w, np)) =>
              /\ Len(dqn'[w]) = NumParams
              /\ \A i \in 1..NumParams :
                    /\ dqn'[w][i].id = dqn[w][i].id
                    /\ dqn'[w][i].data = FloatTensor(np[i])
                    /\ FloatTensor(np[i]) = np[i] => dqn'[w][i].data = np[i]]_vars

\* C6 witness: a synchronize has left in the policy a value that no
\* new_params holds as such and one that it holds as such.
C6_Witness ==
    \E w \in Workers :
        /\ last_call[w].op = "synchronize"
        /\ \E i \in 1..NumParams : dqn[w][i].data = TwoPow24
        /\ \E i \in 1..NumParams : dqn[w][i].data = 1 /\ dqn[w][i].id = i

\* C7: a synchronize whose new_params has fewer or more elements than the
\* policy has parameters ends in an error and leaves the policy as it was.
C7_MismatchFailsFast ==
    [][\A w \in Workers : \A np \in NewParamSets :
          (Len(np) # NumParams /\ last_call'[w].op = "synchronize"
             /\ Synchronize(w, np)) =>
              /\ pc'[w] = "error"
              /\ dqn'[w] = dqn[w]]_vars

\* C8: determinism.  Two runs of a worker with the same rank, environment,
\* initial parameters, initial epsilon and hyper-parameters, and no
\* synchronize, return identical local buffers from collect_data.
C8_Determinism ==
    (pc[1] = "returned" /\ pc[2] = "returned") => local_memory[1] = local_memory[2]

\* C9: compute_priorities is a pure transform.  A call leaves the buffer, the
\* policy parameters, epsilon and the environment as they were, and a call
\* that follows another with the same buffer and parameters returns the same
\* priorities.
C9_PrioritiesPure ==
    [][\A w \in Workers :
          last_call'[w].op = "compute_priorities" =>
              /\ local_memory'[w] = local_memory[w]
              /\ dqn'[w] = dqn[w]
              /\ epsilon'[w] = epsilon[w]
              /\ env'[w] = env[w]
              /\ nstep_queue'[w] = nstep_queue[w]
              /\ pc'[w] = pc[w]
              /\ last_call'[w].again => priorities'[w] = priorities[w]]_vars

\* C9 witness: a second compute_priorities call on a buffer with entries.
C9_Witness ==
    \E w \in Workers :
        /\ last_call[w].op = "compute_priorities"
        /\ last_call[w].again
        /\ Len(priorities[w]) >= 2

\* C10: collection order with n_step = 1.  The buffer is at every point, and
\* so when collect_data returns, the sequence of the transitions the
\* interaction loop has produced in this call, in the order of their
\* production across episodes: none dropped, duplicated or reordered.
C10_CollectionOrder ==
    \A w \in Workers :
        ~UseNStep =>
            LET m == local_memory[w]
            IN  /\ FieldLens(m) = {Len(transitions[w])}
                /\ \A i \in 1..Len(transitions[w]) : Entry(m, i) = transitions[w][i]

\* C10 witness: a returned buffer with a terminal transition before its end,
\* that is, one that spans two episodes or more.
C10_Witness ==
    \E w \in Workers :
        /\ ~UseNStep
        /\ pc[w] = "returned"
        /\ \E i \in 1..(Len(local_memory[w].dones) - 1) : local_memory[w].dones[i] = 1

\* C11: environment errors propagate.  When env.reset or env.step raises in
\* collect_data, the call ends in that error with the buffer as it was, and
\* from then on it neither returns a buffer nor starts another episode.
C11_EnvErrorsPropagate ==
    [][\A w \in Workers :
          /\ last_call'[w].op \in {"reset_raised", "step_raised"} =>
                /\ pc'[w] = "error"
                /\ local_memory'[w] = local_memory[w]
          /\ pc[w] = "error" =>
                /\ pc'[w] = "error"
                /\ last_call'[w] = last_call[w]
                /\ local_memory'[w] = local_memory[w]]_vars

\* C11 witness: env.step has raised with the buffer partly filled, short of
\* the threshold, and the call has ended in the error.
C11_Witness ==
    \E w \in Workers :
        /\ pc[w] = "error"
        /\ last_call[w].op = "step_raised"
        /\ Len(local_memory[w].states) >= 1
        /\ Len(local_memory[w].states) < hp.local_buffer_max_size

\* C12 as claimed: in a sequence of synchronize calls with full-length sets the
\* policy parameters equal the set of the most recent call whatever the earlier
\* calls were, and applying that set once more changes nothing.
C12_LatestSetExact ==
    [][\A w \in Workers : \A np \in FullParamSets :
          (last_call[w].op = "synchronize" /\ last_call'[w].op = "synchronize"
             /\ Synchronize(w, np)) =>
              /\ \A i \in 1..NumParams : dqn'[w][i].data = np[i]
              /\ SynchronizedParams(dqn'[w], np) = dqn'[w]]_vars

\* C12 as amended: in a sequence of synchronize calls with full-length sets the
\* policy parameters equal the 32-bit float conversion of the set of the most
\* recent call, whatever the parameters held before (so an older set applied
\* after a newer one stays in place), and applying that set once more changes
\* nothing.
C12_LatestSetWins ==
    [][\A w \in Workers : \A np \in FullParamSets :
          (last_call'[w].op = "synchronize" /\ Synchronize(w, np)) =>
              /\ \A i \in 1..NumParams : dqn'[w][i].data = FloatTensor(np[i])
              /\ dqn'[w] = SynchronizedParams(LoadStateDict(np), np)
              /\ SynchronizedParams(dqn'[w], np) = dqn'[w]]_vars

\* C12 witness: a synchronize that follows another synchronize has put a
\* smaller value where a larger one can have been.
C12_Witness ==
    \E w \in Workers :
        /\ last_call[w].op = "synchronize"
        /\ last_call[w].again
        /\ \E i \in 1..NumParams : dqn[w][i].data = 1
        /\ \E i \in 1..NumParams : dqn[w][i].data = TwoPow24

\* C13: synchronize changes the content of the policy parameters only.  It
\* leaves epsilon, the local buffer, the n-step window, the environment and
\* the worker's position in the collection cycle as they were.
C13_SyncFrame ==
    [][\A w \in Workers :
          last_call'[w].op = "synchronize" =>
              /\ epsilon'[w] = epsilon[w]
              /\ local_memory'[w] = local_memory[w]
              /\ nstep_queue'[w] = nstep_queue[w]
              /\ env'[w] = env[w]
              /\ state'[w] = state[w]
              /\ pc'[w] = pc[w]
              /\ \A i \in 1..NumParams : dqn'[w][i].id = dqn[w][i].id]_vars

\* C13 witness: a synchronize after a collection, with entries in the buffer,
\* epsilon below its start value and new content in the policy.
C13_Witness ==
    \E w \in Workers :
        /\ last_call[w].op = "synchronize"
        /\ pc[w] = "returned"
        /\ Len(local_memory[w].states) >= 1
        /\ FloatLess(epsilon[w], hp.max_epsilon)
        /\ \E i \in 1..NumParams : dqn[w][i].data # 1

\* C14: no shared mutable state between workers.  Whatever one worker does,
\* its construction included, the other worker's local buffer, n-step window,
\* epsilon, policy parameters and random-number state stay as they were, also
\* when one process hosts both workers.
C14_NoSharedState ==
    [][\A w \in Workers : \A v \in Workers \ {w} :
          (pc[w] \notin {"new", "error"} /\ last_call'[v] # last_call[v]) =>
              /\ local_memory'[w] = local_memory[w]
              /\ nstep_queue'[w] = nstep_queue[w]
              /\ epsilon'[w] = epsilon[w]
              /\ dqn'[w] = dqn[w]
              /\ py_random'[proc[w]] = py_random[proc[w]]]_vars

\* The index in tr of the last transition of the episode before the one that
\* tr ends in (0 when tr ends in its first episode).
PrevEpisodeEnd(tr) ==
    LET ends == {i \in 1..(Len(tr) - 1) : tr[i][5] = 1}
    IN  IF ends = {} THEN 0 ELSE CHOOSE i \in ends : \A j \in ends : j <= i

\* The number of entries the buffer held when the episode that tr ends in was
\* started: one per earlier transition that recorded an entry.
EntriesAtEpisodeStart(tr) ==
    Cardinality({j \in 1..PrevEpisodeEnd(tr) : ~UseNStep \/ j >= hp.n_step})

\* C15 as claimed: the threshold is checked at episode boundaries only.  The
\* buffer collect_data returns has local_buffer_max_size entries or more, the
\* return comes directly after a transition whose done flag is true, and the
\* buffer held fewer than local_buffer_max_size entries when the final episode
\* was started.
C15_BoundaryOnly ==
    \A w \in Workers :
        LET tr == transitions[w]
        IN  pc[w] = "returned" =>
                /\ Len(local_memory[w].states) >= hp.local_buffer_max_size
                /\ Len(tr) >= 1
                /\ tr[Len(tr)][5] = 1
                /\ EntriesAtEpisodeStart(tr) < hp.local_buffer_max_size

\* C15 as amended: with local_buffer_max_size > 0 the returned buffer has
\* local_buffer_max_size entries or more, the return comes directly after a
\* transition whose done flag is true, and the buffer held fewer than
\* local_buffer_max_size entries when the final episode was started, so the
\* excess is of that episode alone; with local_buffer_max_size = 0 collect_data
\* returns the empty buffer at once, without any transition.
C15_BoundaryOnlyPositive ==
    \A w \in Workers :
        LET tr == transitions[w]
            m == local_memory[w]
        IN  pc[w] = "returned" =>
                IF hp.local_buffer_max_size > 0
                THEN /\ Len(m.states) >= hp.local_buffer_max_size
                     /\ Len(tr) >= 1
                     /\ tr[Len(tr)][5] = 1
                     /\ EntriesAtEpisodeStart(tr) < hp.local_buffer_max_size
                     /\ Len(m.states) - hp.local_buffer_max_size
                           < Len(tr) - PrevEpisodeEnd(tr)
                ELSE tr = <<>> /\ m = EmptyMemory

\* C15 witness: a buffer returned past the threshold after more than one
\* episode, the buffer having held entries when the final episode started.
C15_Witness ==
    \E w \in Workers :
        /\ pc[w] = "returned"
        /\ Len(local_memory[w].states) > hp.local_buffer_max_size
        /\ EntriesAtEpisodeStart(transitions[w]) >= 1

\* C16: sliding n-step window.  With n_step = N > 1, after k transitions of one
\* collect_data call the window holds the latest min(k, N) transitions in
\* order (never more than N, never emptied by a fold, the oldest leaving
\* first), and the local buffer holds exactly max(0, k - N + 1) entries,
\* entry i folded from transitions i .. i + N - 1.
C16_SlidingWindow ==
    \A w \in Workers :
        UseNStep =>
            LET tr == transitions[w]
                k == Len(tr)
                N == hp.n_step
                m == local_memory[w]
            IN  /\ Len(nstep_queue[w]) = Min(k, N)
                /\ nstep_queue[w] = SubSeq(tr, k - Min(k, N) + 1, k)
                /\ Len(m.states) = Max(0, k - N + 1)
                /\ \A i \in 1..Len(m.states) :
                      Entry(m, i) = FoldOf(SubSeq(tr, i, i + N - 1), hp.gamma)

\* C16 witness: the window has let its oldest member go after a fold and the
\* next transition has added one more folded entry.
C16_Witness ==
    \E w \in Workers :
        /\ UseNStep
        /\ pc[w] = "select"
        /\ Len(transitions[w]) >= hp.n_step + 1
        /\ Len(local_memory[w].states) = Len(transitions[w]) - hp.n_step + 1
        /\ nstep_queue[w][1] = transitions[w][Len(transitions[w]) - hp.n_step + 1]

\* C17: every collect_data call starts from an empty local buffer and an empty
\* n-step window, with epsilon and the policy parameters as the calls before
\* left them; at every later point the entries of the buffer are no more than
\* the transitions of this call and each has the state and action of one of
\* them.
C17_FreshPerCall ==
    [][\A w \in Workers :
          /\ last_call'[w].op = "collect_data" =>
                /\ local_memory'[w] = EmptyMemory
                /\ nstep_queue'[w] = <<>>
                /\ epsilon'[w] = epsilon[w]
                /\ dqn'[w] = dqn[w]
          /\ Len(local_memory'[w].states) <= Len(transitions'[w])
          /\ Len(nstep_queue'[w]) <= Len(transitions'[w])
          /\ \A i \in 1..Len(local_memory'[w].states) :
                \E j \in 1..Len(transitions'[w]) :
                    /\ local_memory'[w].states[i] = transitions'[w][j][1]
                    /\ local_memory'[w].actions[i] = transitions'[w][j][2]]_vars

\* C17 witness: a collect_data call has begun after an earlier call that
\* lowered epsilon and a synchronize that changed the policy.
C17_Witness ==
    \E w \in Workers :
        /\ last_call[w].op = "collect_data"
        /\ FloatLess(epsilon[w], hp.max_epsilon)
        /\ \E i \in 1..NumParams : dqn[w][i].data = TwoPow24
        /\ local_memory[w] = EmptyMemory
        /\ nstep_queue[w] = <<>>

\* The number of select_action calls of the call in progress.
SelectCalls(w) == Len(transitions[w]) + (IF pc[w] = "step" THEN 1 ELSE 0)

\* k * v as an exact number
RECURSIVE ExactTimes(_, _)
ExactTimes(k, v) == IF k = 0 THEN FloatZero ELSE ExactAdd(ExactTimes(k - 1, v), v)

\* max(max_epsilon - k * (max_epsilon - min_epsilon) * epsilon_decay,
\* min_epsilon) as Python evaluates the expression in floats.
ClosedFormFloat(k) ==
    LET ks == RoundToFloat(ExactTimes(k, EpsilonStep))
    IN  IF FloatLess(hp.max_epsilon, ks) THEN hp.min_epsilon
        ELSE FloatMax(FloatSub(hp.max_epsilon, ks), hp.min_epsilon)

\* The same expression as an exact number, without rounding.
ClosedFormExact(k) ==
    LET ks == ExactTimes(k, EpsilonStep)
    IN  IF FloatLess(hp.max_epsilon, ks) THEN hp.min_epsilon
        ELSE FloatMax(ExactSub(hp.max_epsilon, ks), hp.min_epsilon)

\* k successive select_action decrements from max_epsilon
RECURSIVE DecayedTimes(_)
DecayedTimes(k) ==
    IF k = 0 THEN hp.max_epsilon ELSE DecayEpsilon(DecayedTimes(k - 1))

\* |a - b| as an exact number
ExactDistance(a, b) == IF FloatLess(a, b) THEN ExactSub(b, a) ELSE ExactSub(a, b)

\* C18 as claimed: epsilon decay is per step.  There is one select_action call
\* per environment step, each call sets epsilon to
\* max(epsilon - (max_epsilon - min_epsilon) * epsilon_decay, min_epsilon)
\* whichever branch it takes, and after k steps from epsilon = max_epsilon
\* epsilon is max(max_epsilon - k * (max_epsilon - min_epsilon) * epsilon_decay,
\* min_epsilon), however the steps are split into episodes.
C18_DecayClosedForm ==
    [][\A w \in Workers :
          /\ last_call'[w].op = "select_action" =>
                /\ epsilon'[w] = DecayEpsilon(epsilon[w])
                /\ pc'[w] = "step"
          /\ last_call'[w].op = "step" => last_call[w].op = "select_action"
          /\ epsilon'[w] = ClosedFormFloat(SelectCalls(w)')]_vars

\* C18 as amended: there is one select_action call per environment step, each
\* call sets epsilon to the float
\* max(epsilon - (max_epsilon - min_epsilon) * epsilon_decay, min_epsilon)
\* whichever branch it takes, and after k steps from epsilon = max_epsilon
\* epsilon is the result of k such successive float decrements, however the
\* steps are split into episodes; it is within k * 2^-54 of
\* max(max_epsilon - k * (max_epsilon - min_epsilon) * epsilon_decay,
\* min_epsilon), the rounding of the k subtractions, and not always equal to it.
C18_DecayPerStep ==
    [][\A w \in Workers :
          /\ last_call'[w].op = "select_action" =>
                /\ epsilon'[w] = DecayEpsilon(epsilon[w])
                /\ pc'[w] = "step"
                /\ transitions'[w] = transitions[w]
          /\ last_call'[w].op = "step" =>
                /\ last_call[w].op = "select_action"
                /\ Len(transitions'[w]) = Len(transitions[w]) + 1
                /\ epsilon'[w] = epsilon[w]
          /\ epsilon'[w] = DecayedTimes(SelectCalls(w)')
          /\ FloatLeq(ExactDistance(epsilon'[w], ClosedFormExact(SelectCalls(w)')),
                      <<0, 4 * SelectCalls(w)'>>)]_vars

\* C18 witness: two steps in two episodes have lowered epsilon by two
\* decrements, the floor not reached, to a float that is not the float of the
\* closed form.
C18_Witness ==
    /\ hp.epsilon_decay # FloatZero
    /\ Len(transitions[1]) = 2
    /\ transitions[1][1][5] = 1
    /\ epsilon[1] = FloatSub(FloatSub(hp.max_epsilon, EpsilonStep), EpsilonStep)
    /\ FloatLess(hp.min_epsilon, epsilon[1])
    /\ epsilon[1] # ClosedFormFloat(2)

\* C19: termination of collection.  In an environment whose episodes end and
\* whose reset and step do not fail, a collect_data call that has begun
\* returns, for every local_buffer_max_size >= 0 and every n_step >= 1.
C19_CollectionTerminates == (pc[1] = "loop") ~> (pc[1] = "returned")

\* C19 witness: a call with n_step > 1 has returned after three transitions or
\* more in two episodes or more.
C19_Witness ==
    /\ pc[1] = "returned"
    /\ UseNStep
    /\ hp.local_buffer_max_size >= 2
    /\ Len(transitions[1]) >= 3
    /\ \E i \in 1..(Len(transitions[1]) - 1) : transitions[1][i][5] = 1

\* C20: the n-step window is not reset at an episode boundary.  Within one
\* collect_data call with n_step = N > 1, after env.reset the window still
\* holds the last transitions of the call, the last of them the done
\* transition of the finished episode; and an entry folded at one of the first
\* N - 1 steps of a later episode comes from a window with transitions of both
\* episodes, the done transition among its members before the last.
C20_WindowAcrossEpisodes ==
    \A w \in Workers :
        UseNStep =>
            LET tr == transitions[w]
                k == Len(tr)
                N == hp.n_step
                q == nstep_queue[w]
                m == local_memory[w]
                prev == PrevEpisodeEnd(tr)
            IN  /\ (last_call[w].op = "reset" /\ k >= 1) =>
                      /\ q = SubSeq(tr, k - Min(k, N) + 1, k)
                      /\ q[Len(q)][5] = 1
                /\ (last_call[w].op = "step" /\ prev > 0 /\ k - prev <= N - 1
                      /\ k >= N) =>
                      /\ \E i \in 1..(N - 1) : q[i] = tr[prev] /\ q[i][5] = 1
                      /\ q[N] = tr[k]
                      /\ Len(m.states) >= 1
                      /\ Entry(m, Len(m.states)) = FoldOf(q, hp.gamma)
                      /\ m.dones[Len(m.states)] = 1
                      /\ m.states[Len(m.states)] = tr[k - N + 1][1]

\* C20 witness: the first step of a second episode has folded a window whose
\* first member is the done transition of the first episode and whose last
\* member is not a done transition.
C20_Witness ==
    \E w \in Workers :
        /\ UseNStep
        /\ last_call[w].op = "step"
        /\ PrevEpisodeEnd(transitions[w]) >= 1
        /\ PrevEpisodeEnd(transitions[w]) = Len(transitions[w]) - 1
        /\ Len(nstep_queue[w]) = hp.n_step
        /\ nstep_queue[w][1][5] = 1
        /\ nstep_queue[w][hp.n_step][5] = 0
        /\ local_memory[w].dones[Len(local_memory[w].dones)] = 1

====
